---- MODULE Spec2Model ----
(***************************************************************************)
(* PulZ opportunity engine (src/openwebui-patch/pulz_backend.py): the      *)
(* proposal lifecycle, the execution workers, the mission loop and the     *)
(* kill switch, as a state machine.                                        *)
(*                                                                         *)
(* Scheduling.  Every request handler and every background task is an      *)
(* asyncio coroutine on one event loop.  A request handler is one action:  *)
(* it runs from its first line to its response.  A background task (the    *)
(* execution worker _run_execution, the mission loop _mission_loop) is a   *)
(* sequence of actions, one per awaited store/broadcast operation or per   *)
(* awaited I/O (connector fetch, classifier call, sleep); other actions    *)
(* may run between two steps of a task, and Task.cancel() makes the next   *)
(* step of the task raise CancelledError at the await it is parked on.     *)
(*                                                                         *)
(* The feed.  A handler or a task that publishes appends its event to the  *)
(* queue of every subscriber there is.  SpecFeed has FeedBroadcaster and   *)
(* its /feed subscribers on their own, with a publish call standing for    *)
(* any caller; SpecEvents has one subscriber next to a mission, an         *)
(* approval, a worker and the cancel API; the other specifications have no *)
(* subscriber, and there a publish changes nothing.                        *)
(*                                                                         *)
(* Locks.  SpecLocks runs the coroutines by the `async with` blocks they   *)
(* enter and leave, one step per acquire and per release; the other        *)
(* specifications take no lock step.                                       *)
(*                                                                         *)
(* The classifier.  A text is the set of the phrases it holds; SpecScore   *)
(* scores texts with and without an answer of the LLM, the other           *)
(* specifications score one text per recommendation with no LLM.           *)
(*                                                                         *)
(* Identifiers.  A proposal / execution id is the row's index in the       *)
(* table; a mission id is its started_at second (the code hashes it);      *)
(* 0 stands for NULL / None.  A rate is counted in halves per minute (2 is  *)
(* rate_per_source_per_minute = 1.0, 1 is 0.5), and a delay in seconds.    *)
(* A timestamp (_now_iso) is the value of the clock at the write.          *)
(***************************************************************************)
EXTENDS Integers, Sequences, FiniteSets, Bags, TLC

\* ------------------------------------------------------------------ bounds
MaxSignals == 1
MaxExecutions == 1
MaxApprovals == 2
MaxStarts == 1
MaxClock == 2
MaxRaceExecutions == 2
MaxRaceStarts == 2
MaxSubscribers == 2
MaxEvents == 3
MaxLoopSignals == 2
MaxStoreSignals == 3
MaxRoutines == 2

VARIABLES
    proposals,      \* table proposals
    executions,     \* table executions
    tasks,          \* execution_tasks / execution_cancellations, per execution
    artifacts,      \* table artifacts (a bag of rows)
    telemetry,      \* table telemetry_events (a bag of rows)
    signals,        \* table signals: id -> row, for the ids stored
    missions,       \* table missions: id -> row, for the ids stored
    mission_state,  \* the MissionState singleton
    stop_event,     \* the module-level asyncio.Event
    mission_task,   \* the module-level reference to the last loop task
    loops,          \* every mission loop task created so far
    clock,          \* the last wall-clock second the program has read
    queues,         \* broadcaster.queues: the subscribed queues, by number
    queue_items,    \* the events waiting in each asyncio.Queue created so far
    streams,        \* the events each /feed subscriber has sent to its client
    published,      \* the number of broadcaster.publish calls so far
    lock_holder,    \* for each asyncio.Lock, the routine inside it (NULL: free)
    routines        \* for each running coroutine, the lock operations it has left

vars == <<proposals, executions, tasks, artifacts, telemetry, signals, missions,
          mission_state, stop_event, mission_task, loops, clock,
          queues, queue_items, streams, published, lock_holder, routines>>

\* --------------------------------------------------------------- constants
NULL == 0

\* db_lock, execution_lock (lines 155-156) and FeedBroadcaster.lock (line 131)
Locks == {"db_lock", "execution_lock", "broadcaster.lock"}

EXECUTORS == {"html", "pdf", "doc", "site"}

SOURCE_CONFIG == {"reddit_smallbusiness", "reddit_entrepreneur", "rss_forhire"}

AUTHORITY_MODES == {"scan_only", "draft_only", "auto_draft_queue", "execute_after_approval"}

TerminalProposal == {"executed", "cancelled", "failed"}

TerminalExecution == {"succeeded", "failed", "cancelled"}

\* the artifacts an executor's outcome lists, by lane (kinds only)
OutcomeArtifacts(lane) ==
    CASE lane = "html" -> <<"html", "html">>
      [] lane = "pdf"  -> <<"pdf">>
      [] lane = "doc"  -> <<"doc", "pdf">>
      [] lane = "site" -> <<"html", "zip">>

\* ------------------------------------------------------------------ inputs
Signals == 1..MaxSignals

LaneInputs == {"html", "doc", "fax"}

\* what a connector's fetch_signals() returns: a list of signals (empty on 304)
FetchResults == {<<>>} \cup {<<i>> : i \in Signals} \cup {<<i, i + 1>> : i \in 1..(MaxSignals - 1)}

\* the same, for the signals 1..n
FetchResultsOf(n) ==
    {<<>>} \cup {<<i>> : i \in 1..n} \cup {<<i, i + 1>> : i \in 1..(n - 1)}

\* scored["recommended_next_action"] as _score_signal leaves it
Recommendations == {"draft proposal", "ignore", "needs clarification"}

\* mission/start payloads
Payloads ==
    [duration : {1}, sources : {<<"reddit_smallbusiness">>, <<"nowhere">>},
     rate : {2}, max_items : {1, 2},
     authority_mode : {"draft_only", "auto_draft_queue", "execute_after_approval", "everything"}]

\* mission/start payloads for the polling loop: two connectors, sources the
\* catalogue does not know, and rates of 0, 0.5, 1 and 24 per minute
LoopPayloads ==
    [duration : {1},
     sources : {<<"reddit_smallbusiness", "rss_forhire">>, <<"nowhere", "rss_forhire">>,
                <<"nowhere">>},
     rate : {0, 1, 2, 48}, max_items : {1, 2},
     authority_mode : {"auto_draft_queue"}]

\* ------------------------------------------------------------ store access
\* _update_proposal_status: UPDATE ... WHERE id = ? (no row, no change)
UpdateProposalStatus(ps, p, s) ==
    IF p \in DOMAIN ps THEN [ps EXCEPT ![p].status = s] ELSE ps

\* _update_execution_status, were the error text dropped
UpdateExecutionStatusNoError(es, e, s, err) ==
    IF e \in DOMAIN es
    THEN [es EXCEPT ![e].status = s,
                    ![e].finished_at = IF s \in TerminalExecution THEN clock ELSE @]
    ELSE es

\* _update_execution_status, were finished_at written for an outcome only
UpdateExecutionStatusLateFinish(es, e, s, err) ==
    IF e \in DOMAIN es
    THEN [es EXCEPT ![e].status = s,
                    ![e].finished_at = IF s \in {"succeeded", "failed"} THEN clock ELSE @,
                    ![e].error = IF err THEN TRUE ELSE @]
    ELSE es

\* _update_execution_status: finished_at = _now_iso() is written with a
\* terminal status
UpdateExecutionStatus(es, e, s, err) ==
    IF e \in DOMAIN es
    THEN [es EXCEPT ![e].status = s,
                    ![e].finished_at = IF s \in TerminalExecution THEN clock ELSE @,
                    ![e].error = IF err THEN TRUE ELSE @]
    ELSE es

\* _record_telemetry: one more row
RecordTelemetry(tel, type, p, e) ==
    tel (+) SetToBag({[type |-> type, proposal_id |-> p, execution_id |-> e]})

\* _insert_artifact: one more row
InsertArtifact(arts, p, e, kind) ==
    arts (+) SetToBag({[proposal_id |-> p, execution_id |-> e, kind |-> kind]})

\* _emit_execution_event, were only the start and the end recorded
EmitTelemetryFinishedOnly(tel, type, p, e) ==
    IF type \in {"execution_started", "execution_finished"}
    THEN RecordTelemetry(tel, type, p, e)
    ELSE tel

\* _emit_execution_event: publish, and record the four lifecycle types
EmitTelemetry(tel, type, p, e) ==
    IF type \in {"execution_started", "execution_finished", "execution_failed", "execution_cancelled"}
    THEN RecordTelemetry(tel, type, p, e)
    ELSE tel

Count(bag, x) == IF x \in DOMAIN bag THEN bag[x] ELSE 0

\* ------------------------------------------------------------ initial state
\* MissionState(sources=[]) with the dataclass defaults
InitialMissionState ==
    [running |-> FALSE, ends_at |-> NULL, rate |-> 2, max_items |-> 100,
     items_processed |-> 0, last_error |-> "none", current_mission_id |-> NULL,
     authority_mode |-> "auto_draft_queue", execution_blocked |-> FALSE,
     model_calls |-> 0]

Init ==
    /\ proposals = <<>>
    /\ executions = <<>>
    /\ tasks = <<>>
    /\ artifacts = EmptyBag
    /\ telemetry = EmptyBag
    /\ signals = <<>>
    /\ missions = <<>>
    /\ mission_state = InitialMissionState
    /\ stop_event = FALSE
    /\ mission_task = NULL
    /\ loops = <<>>
    /\ clock = 1
    /\ queues = <<>>
    /\ queue_items = <<>>
    /\ streams = <<>>
    /\ published = 0
    /\ lock_holder = [l \in Locks |-> NULL]
    /\ routines = <<>>

MissionVars == <<mission_state, stop_event, mission_task, loops, clock>>

\* the broadcaster and its subscribers
FeedVars == <<queues, queue_items, streams, published>>

\* the locks and the coroutines that take them
LockVars == <<lock_holder, routines>>

\* FeedBroadcaster.publish, were it to stop after the first queue
PublishFirstOnly(subscribers, items, event) ==
    [q \in DOMAIN items |->
        IF subscribers # <<>> /\ q = Head(subscribers)
        THEN Append(items[q], event) ELSE items[q]]

\* FeedBroadcaster.publish: for queue in list(self.queues): queue.put(event)
Publish(subscribers, items, event) ==
    [q \in DOMAIN items |->
        IF \E i \in DOMAIN subscribers : subscribers[i] = q
        THEN Append(items[q], event) ELSE items[q]]

\* the event _emit_execution_event publishes for execution e
FeedEvent(type, e) == [type |-> type, execution_id |-> e]

\* broadcaster.publish of an event, to the subscribers there are
Published(event) == queue_items' = Publish(queues, queue_items, event)

\* the rest of the broadcaster, which no handler and no task changes
FeedFrame == <<queues, streams, published>>

\* ------------------------------------------------------ proposal lifecycle
\* what a handler answers: the HTTP status and the execution_id of the body
Response(code, e) == [code |-> code, execution_id |-> e]

\* _start_execution_task without its kill-switch test
ExecutionNeverBlocked == FALSE

\* _start_execution_task, were it to refuse every request
ExecutionAlwaysBlocked == TRUE

\* _start_execution_task refuses when the kill switch is on
ExecutionBlocked == mission_state.execution_blocked

\* the execution row _insert_execution writes
NewExecution(p, lane) ==
    [proposal_id |-> p, mission_id |-> proposals[p].mission_id, lane |-> lane,
     status |-> "queued", finished_at |-> NULL, error |-> FALSE]

\* the registry entry: the task (its position) and its cancel signal
NewTask == [pc |-> "created", must_cancel |-> FALSE, cancel_event |-> FALSE]

\* the number of artifact rows of kind json: one per approval
Approvals ==
    BagCardinality([a \in {x \in DOMAIN artifacts : x.kind = "json"} |-> artifacts[a]])

\* approve, were it to leave every execution to the operator
ApproveNeverEnqueues(p) == FALSE

\* approve enqueues when the proposal is auto_after_approval and
\* _start_execution_task does not raise
ApproveEnqueues(p) ==
    proposals[p].execution_mode = "auto_after_approval" /\ ~ExecutionBlocked

\* the answer of POST /queue/{proposal_id}/approve
ApproveResponse(p) ==
    IF p \notin DOMAIN proposals THEN Response(404, NULL)
    ELSE IF ApproveEnqueues(p) THEN Response(200, Len(executions) + 1)
    ELSE Response(200, NULL)

\* POST /queue/{proposal_id}/approve
Approve(p, maxApprovals, maxExecutions) ==
    /\ UNCHANGED <<FeedFrame, LockVars>>
    /\ IF ApproveResponse(p).code # 404 /\ ApproveEnqueues(p)
       THEN Published(FeedEvent("execution_queued", Len(executions) + 1))
       ELSE UNCHANGED queue_items
    /\ UNCHANGED <<signals, missions, MissionVars>>
    /\ IF ApproveResponse(p).code = 404
       THEN UNCHANGED <<proposals, executions, tasks, artifacts, telemetry>>
       ELSE /\ Approvals < maxApprovals
            /\ proposals' = UpdateProposalStatus(proposals, p, "approved")
            /\ artifacts' = InsertArtifact(artifacts, p, NULL, "json")
            /\ IF ApproveEnqueues(p)
               THEN /\ Len(executions) < maxExecutions
                    /\ executions' = Append(executions, NewExecution(p, "html"))
                    /\ tasks' = Append(tasks, NewTask)
                    /\ telemetry' = RecordTelemetry(
                           RecordTelemetry(telemetry, "proposal_approved", p, NULL),
                           "execution_queued", p, Len(executions) + 1)
               ELSE /\ telemetry' = RecordTelemetry(telemetry, "proposal_approved", p, NULL)
                    /\ UNCHANGED <<executions, tasks>>

\* the answer of POST /queue/{proposal_id}/reject
RejectResponse(p) == Response(200, NULL)

\* POST /queue/{proposal_id}/reject
Reject(p) ==
    /\ UNCHANGED <<FeedVars, LockVars>>
    /\ proposals' = UpdateProposalStatus(proposals, p, "cancelled")
    /\ UNCHANGED <<executions, tasks, artifacts, telemetry, signals, missions, MissionVars>>

\* execute's test, were allow_rerun to reopen every terminal status
ExecuteAllowedAnyTerminal(status, allow_rerun) ==
    status = "approved" \/ (status \in TerminalProposal /\ allow_rerun)

\* execute's test of the status of the proposal row it has read
ExecuteAllowed(status, allow_rerun) ==
    ~(status # "approved" /\ ~(status = "executed" /\ allow_rerun))

\* the answer of POST /proposals/{proposal_id}/execute
ExecuteResponse(p, lane, allow_rerun) ==
    IF lane \notin EXECUTORS THEN Response(400, NULL)
    ELSE IF p \notin DOMAIN proposals THEN Response(404, NULL)
    ELSE IF ~ExecuteAllowed(proposals[p].status, allow_rerun) THEN Response(409, NULL)
    ELSE IF ExecutionBlocked THEN Response(409, NULL)
    ELSE Response(200, Len(executions) + 1)

\* POST /proposals/{proposal_id}/execute
Execute(p, lane, allow_rerun, maxExecutions) ==
    /\ UNCHANGED <<FeedFrame, LockVars>>
    /\ IF ExecuteResponse(p, lane, allow_rerun).code = 200
       THEN Published(FeedEvent("execution_queued", Len(executions) + 1))
       ELSE UNCHANGED queue_items
    /\ UNCHANGED <<proposals, artifacts, signals, missions, MissionVars>>
    /\ IF ExecuteResponse(p, lane, allow_rerun).code # 200
       THEN UNCHANGED <<executions, tasks, telemetry>>
       ELSE /\ Len(executions) < maxExecutions
            /\ executions' = Append(executions, NewExecution(p, lane))
            /\ tasks' = Append(tasks, NewTask)
            /\ telemetry' = RecordTelemetry(telemetry, "execution_queued", p, Len(executions) + 1)

\* a task that has returned or died: Task.cancel() does nothing to it
TaskDone(t) == t.pc \in {"done", "dead"}

\* _cancel_execution: set the cancel signal and cancel the task
CancelTask(t) ==
    [t EXCEPT !.cancel_event = TRUE,
              !.must_cancel = IF TaskDone(t) THEN @ ELSE TRUE]

\* the answer of POST /executions/{execution_id}/cancel
CancelResponse(e) ==
    IF e \notin DOMAIN executions THEN Response(404, NULL) ELSE Response(200, e)

\* cancel_execution acts on an execution that is not terminal yet
CancelActs(e) ==
    e \in DOMAIN executions /\ executions[e].status \notin TerminalExecution

\* POST /executions/{execution_id}/cancel
CancelExecution(e) ==
    /\ UNCHANGED <<FeedFrame, LockVars>>
    /\ IF CancelActs(e)
       THEN Published(FeedEvent("execution_cancelled", e))
       ELSE UNCHANGED queue_items
    /\ UNCHANGED <<artifacts, signals, missions, MissionVars>>
    /\ IF ~CancelActs(e)
       THEN UNCHANGED <<proposals, executions, tasks, telemetry>>
       ELSE /\ tasks' = [tasks EXCEPT ![e] = CancelTask(@)]
            /\ executions' = UpdateExecutionStatus(executions, e, "cancelled", FALSE)
            /\ proposals' = UpdateProposalStatus(proposals, executions[e].proposal_id, "cancelled")
            /\ telemetry' = EmitTelemetry(telemetry, "execution_cancelled",
                                          executions[e].proposal_id, e)

\* ------------------------------------------------------- execution workers
\* the positions of _run_execution inside its try body; a position names the
\* awaited operation the task performs at its next step
TryBody == {"w_executing", "w_started", "w_run1", "w_run2", "w_artifacts",
            "w_succeeded", "w_executed", "w_finished"}

\* the positions inside the two except handlers
Handlers == {"c_exec", "c_prop", "c_emit", "f_exec", "f_prop", "f_emit"}

\* record every artifact of the outcome (line 1240-1253)
RECURSIVE InsertArtifacts(_, _, _, _)
InsertArtifacts(arts, p, e, kinds) ==
    IF kinds = <<>> THEN arts
    ELSE InsertArtifacts(InsertArtifact(arts, p, e, Head(kinds)), p, e, Tail(kinds))

\* the task's first step: a task cancelled before it ever ran ends without
\* running any line of the coroutine; otherwise the row becomes running
WorkerBegin(e) ==
    /\ UNCHANGED <<FeedVars, LockVars>>
    /\ e \in DOMAIN tasks
    /\ tasks[e].pc = "created"
    /\ IF tasks[e].must_cancel
       THEN /\ tasks' = [tasks EXCEPT ![e].pc = "dead", ![e].must_cancel = FALSE]
            /\ UNCHANGED executions
       ELSE /\ tasks' = [tasks EXCEPT ![e].pc = "w_executing"]
            /\ executions' = UpdateExecutionStatus(executions, e, "running", FALSE)
    /\ UNCHANGED <<proposals, artifacts, telemetry, signals, missions, MissionVars>>

\* CancelledError raised at the await the task is parked on: inside the try
\* body the except CancelledError handler takes over; inside a handler the
\* exception leaves _run_execution and the task ends
WorkerCancelled(e) ==
    /\ UNCHANGED <<FeedVars, LockVars>>
    /\ e \in DOMAIN tasks
    /\ tasks[e].must_cancel
    /\ tasks[e].pc \in TryBody \cup Handlers
    /\ tasks' = [tasks EXCEPT ![e].must_cancel = FALSE,
                              ![e].pc = IF tasks[e].pc \in TryBody THEN "c_exec" ELSE "dead"]
    /\ UNCHANGED <<proposals, executions, artifacts, telemetry, signals, missions,
                   MissionVars>>

\* the executor raises (disk full, unwritable output_dir, ...): except Exception
WorkerFail(e) ==
    /\ UNCHANGED <<FeedVars, LockVars>>
    /\ e \in DOMAIN tasks
    /\ ~tasks[e].must_cancel
    /\ tasks[e].pc \in {"w_run1", "w_run2"}
    /\ tasks' = [tasks EXCEPT ![e].pc = "f_exec"]
    /\ UNCHANGED <<proposals, executions, artifacts, telemetry, signals, missions,
                   MissionVars>>

\* the event the step at position pc emits ("none": the step emits nothing)
Emitted(pc, cancel_event) ==
    CASE pc = "w_started" -> "execution_started"
      [] pc \in {"w_run1", "w_run2"} -> IF cancel_event THEN "none" ELSE "execution_log"
      [] pc = "w_artifacts" -> "execution_artifact"
      [] pc = "w_finished" -> "execution_finished"
      [] pc = "c_emit" -> "execution_cancelled"
      [] pc = "f_emit" -> "execution_failed"
      [] OTHER -> "none"

\* what the step at position pc writes, and where the task parks next
WorkerStep(e) ==
    /\ UNCHANGED <<FeedFrame, LockVars>>
    /\ e \in DOMAIN tasks
    /\ ~tasks[e].must_cancel
    /\ tasks[e].pc \in TryBody \cup Handlers
    /\ IF Emitted(tasks[e].pc, tasks[e].cancel_event) # "none"
       THEN Published(FeedEvent(Emitted(tasks[e].pc, tasks[e].cancel_event), e))
       ELSE UNCHANGED queue_items
    /\ LET pc == tasks[e].pc
           p == executions[e].proposal_id
           goto(next) == tasks' = [tasks EXCEPT ![e].pc = next]
       IN  CASE pc = "w_executing" ->
                  /\ proposals' = UpdateProposalStatus(proposals, p, "executing")
                  /\ goto("w_started")
                  /\ UNCHANGED <<executions, artifacts, telemetry>>
             [] pc = "w_started" ->
                  /\ telemetry' = EmitTelemetry(telemetry, "execution_started", p, e)
                  /\ goto("w_run1")
                  /\ UNCHANGED <<proposals, executions, artifacts>>
             [] pc \in {"w_run1", "w_run2"} ->
                  \* _check_cancel, then emit execution_log / execution_progress
                  /\ goto(IF tasks[e].cancel_event THEN "c_exec"
                          ELSE IF pc = "w_run1" THEN "w_run2" ELSE "w_artifacts")
                  /\ telemetry' = IF tasks[e].cancel_event THEN telemetry
                                  ELSE EmitTelemetry(telemetry, "execution_log", p, e)
                  /\ UNCHANGED <<proposals, executions, artifacts>>
             [] pc = "w_artifacts" ->
                  /\ artifacts' = InsertArtifacts(artifacts, p, e,
                                                  OutcomeArtifacts(executions[e].lane))
                  /\ telemetry' = EmitTelemetry(telemetry, "execution_artifact", p, e)
                  /\ goto("w_succeeded")
                  /\ UNCHANGED <<proposals, executions>>
             [] pc = "w_succeeded" ->
                  /\ executions' = UpdateExecutionStatus(executions, e, "succeeded", FALSE)
                  /\ goto("w_executed")
                  /\ UNCHANGED <<proposals, artifacts, telemetry>>
             [] pc = "w_executed" ->
                  /\ proposals' = UpdateProposalStatus(proposals, p, "executed")
                  /\ goto("w_finished")
                  /\ UNCHANGED <<executions, artifacts, telemetry>>
             [] pc = "w_finished" ->
                  /\ telemetry' = EmitTelemetry(telemetry, "execution_finished", p, e)
                  /\ goto("done")
                  /\ UNCHANGED <<proposals, executions, artifacts>>
             [] pc = "c_exec" ->
                  /\ executions' = UpdateExecutionStatus(executions, e, "cancelled", FALSE)
                  /\ goto("c_prop")
                  /\ UNCHANGED <<proposals, artifacts, telemetry>>
             [] pc = "c_prop" ->
                  /\ proposals' = UpdateProposalStatus(proposals, p, "cancelled")
                  /\ goto("c_emit")
                  /\ UNCHANGED <<executions, artifacts, telemetry>>
             [] pc = "c_emit" ->
                  /\ telemetry' = EmitTelemetry(telemetry, "execution_cancelled", p, e)
                  /\ goto("done")
                  /\ UNCHANGED <<proposals, executions, artifacts>>
             [] pc = "f_exec" ->
                  /\ executions' = UpdateExecutionStatus(executions, e, "failed", TRUE)
                  /\ goto("f_prop")
                  /\ UNCHANGED <<proposals, artifacts, telemetry>>
             [] pc = "f_prop" ->
                  /\ proposals' = UpdateProposalStatus(proposals, p, "failed")
                  /\ goto("f_emit")
                  /\ UNCHANGED <<executions, artifacts, telemetry>>
             [] pc = "f_emit" ->
                  /\ telemetry' = EmitTelemetry(telemetry, "execution_failed", p, e)
                  /\ goto("done")
                  /\ UNCHANGED <<proposals, executions, artifacts>>
    /\ UNCHANGED <<signals, missions, MissionVars>>

\* ------------------------------------------------------------ mission engine
\* the connectors, were a source the catalogue does not know kept
ConnectorsUnchecked(sources) == sources

\* the connectors _mission_loop resolves: the sources SOURCE_CONFIG knows
Connectors(sources) == SelectSeq(sources, LAMBDA src : src \in SOURCE_CONFIG)

\* the arguments and locals of one _mission_loop task; slept is the delay of
\* the sleep the task has taken since its last fetch (-1 before any fetch)
NewLoop(config) ==
    [pc |-> "init", config |-> config, connectors |-> <<>>, conn |-> 0, batch |-> <<>>,
     slept |-> -1]

NoConfig == [started_at |-> NULL, ends_at |-> NULL, sources |-> <<>>, rate |-> 0,
             max_items |-> 0, authority_mode |-> "none"]

\* the answer of POST /mission/start
StartResponse(pl) ==
    IF mission_state.running THEN Response(409, NULL)
    ELSE IF pl.authority_mode \notin AUTHORITY_MODES THEN Response(400, NULL)
    ELSE Response(200, NULL)

\* POST /mission/start
StartMission(pl, maxStarts) ==
    /\ UNCHANGED <<FeedVars, LockVars>>
    /\ UNCHANGED <<proposals, executions, tasks, artifacts, telemetry, signals, missions>>
    /\ IF StartResponse(pl).code # 200
       THEN UNCHANGED MissionVars
       ELSE /\ Len(loops) < maxStarts
            /\ \E now \in clock..MaxClock :
                 /\ clock' = now
                 /\ loops' = Append(loops, NewLoop(
                        [started_at |-> now, ends_at |-> now + pl.duration,
                         sources |-> pl.sources, rate |-> pl.rate,
                         max_items |-> pl.max_items, authority_mode |-> pl.authority_mode]))
            /\ mission_state' = [mission_state EXCEPT !.execution_blocked = FALSE]
            /\ stop_event' = FALSE
            /\ mission_task' = Len(loops) + 1

\* the rows _cancel_running_executions selects
RunningExecutions(mission_id) ==
    {e \in DOMAIN executions :
        /\ executions[e].status = "running"
        /\ (mission_id = NULL \/ executions[e].mission_id = mission_id)}

\* POST /mission/stop
StopMission ==
    /\ UNCHANGED <<FeedVars, LockVars>>
    /\ UNCHANGED <<proposals, executions, artifacts, telemetry, signals, missions,
                   mission_task, loops, clock>>
    /\ IF ~mission_state.running
       THEN UNCHANGED <<tasks, mission_state, stop_event>>
       ELSE /\ stop_event' = TRUE
            /\ mission_state' = [mission_state EXCEPT !.execution_blocked = TRUE]
            /\ tasks' = [e \in DOMAIN tasks |->
                           IF e \in RunningExecutions(mission_state.current_mission_id)
                           THEN CancelTask(tasks[e]) ELSE tasks[e]]

\* the modes a POST /missions/{mission_id}/authority may name
AuthorityInputs == AUTHORITY_MODES \cup {"everything"}

\* the answer of POST /missions/{mission_id}/authority
AuthorityResponse(mission_id, authority_mode) ==
    IF authority_mode \notin AUTHORITY_MODES THEN Response(400, NULL) ELSE Response(200, NULL)

\* POST /missions/{mission_id}/authority: the mission row, and the live mode
\* when the mission is the current one
SetAuthority(mission_id, authority_mode) ==
    /\ UNCHANGED <<FeedVars, LockVars>>
    /\ UNCHANGED <<proposals, executions, tasks, artifacts, telemetry, signals,
                   stop_event, mission_task, loops, clock>>
    /\ IF AuthorityResponse(mission_id, authority_mode).code # 200
       THEN UNCHANGED <<missions, mission_state>>
       ELSE /\ missions' = IF mission_id \in DOMAIN missions
                           THEN [missions EXCEPT ![mission_id].authority_mode = authority_mode]
                           ELSE missions
            /\ mission_state' =
                  IF mission_state.current_mission_id = mission_id
                  THEN [mission_state EXCEPT !.authority_mode = authority_mode]
                  ELSE mission_state

\* the answer of GET /executions/{execution_id}
DetailResponse(e) ==
    IF e \notin DOMAIN executions THEN Response(404, NULL) ELSE Response(200, e)

\* _mission_loop up to its first await (lines 887-914)
LoopInit(k) ==
    /\ UNCHANGED <<FeedVars, LockVars>>
    /\ k \in DOMAIN loops
    /\ loops[k].pc = "init"
    /\ LET cfg == loops[k].config
           conns == Connectors(cfg.sources)
       IN  /\ mission_state' =
                 [mission_state EXCEPT
                    !.running = (conns # <<>>),
                    !.ends_at = cfg.ends_at,
                    !.rate = cfg.rate,
                    !.max_items = cfg.max_items,
                    !.items_processed = 0,
                    !.last_error = IF conns = <<>> THEN "No valid connectors configured"
                                   ELSE "none",
                    !.model_calls = 0,
                    !.authority_mode = cfg.authority_mode,
                    !.execution_blocked = FALSE]
           /\ loops' = [loops EXCEPT ![k].connectors = conns,
                                     ![k].pc = IF conns = <<>> THEN "done" ELSE "record",
                                     ![k].config = IF conns = <<>> THEN NoConfig ELSE @]
    /\ UNCHANGED <<proposals, executions, tasks, artifacts, telemetry, signals, missions,
                   stop_event, mission_task, clock>>

\* _record_mission: INSERT INTO missions; the id is the primary key, so a
\* second row for the same started_at raises and the task ends there
LoopRecord(k) ==
    /\ UNCHANGED <<FeedVars, LockVars>>
    /\ k \in DOMAIN loops
    /\ loops[k].pc = "record"
    /\ LET cfg == loops[k].config
           mission_id == cfg.started_at
       IN  IF mission_id \in DOMAIN missions
           THEN /\ loops' = [loops EXCEPT ![k].pc = "crashed", ![k].config = NoConfig]
                /\ UNCHANGED <<missions, mission_state>>
           ELSE /\ missions' = (mission_id :> [status |-> "running",
                                               authority_mode |-> cfg.authority_mode]) @@ missions
                /\ mission_state' = [mission_state EXCEPT !.current_mission_id = mission_id]
                /\ loops' = [loops EXCEPT ![k].pc = "while", ![k].config = NoConfig]
    /\ UNCHANGED <<proposals, executions, tasks, artifacts, telemetry, signals,
                   stop_event, mission_task, clock>>

\* while not stop_event.is_set(): ... ; mission_state.running = False
LoopWhile(k) ==
    /\ UNCHANGED <<FeedVars, LockVars>>
    /\ k \in DOMAIN loops
    /\ loops[k].pc = "while"
    /\ IF stop_event
       THEN /\ mission_state' = [mission_state EXCEPT !.running = FALSE]
            /\ loops' = [loops EXCEPT ![k].pc = "done"]
       ELSE /\ loops' = [loops EXCEPT ![k].pc = "conn", ![k].conn = 1]
            /\ UNCHANGED mission_state
    /\ UNCHANGED <<proposals, executions, tasks, artifacts, telemetry, signals, missions,
                   stop_event, mission_task, clock>>

\* for name, connector in connectors.items(): the stop check and the fetch;
\* a fetch that raises is trapped by except Exception (no sleep follows)
LoopFetch(k, ok, result) ==
    /\ UNCHANGED <<FeedVars, LockVars>>
    /\ k \in DOMAIN loops
    /\ loops[k].pc = "conn"
    /\ IF loops[k].conn > Len(loops[k].connectors) \/ stop_event
       THEN /\ loops' = [loops EXCEPT ![k].pc = "ends"]
            /\ UNCHANGED mission_state
       ELSE IF ok
       THEN /\ loops' = [loops EXCEPT ![k].pc = "sig", ![k].batch = result, ![k].slept = 0]
            /\ UNCHANGED mission_state
       ELSE /\ loops' = [loops EXCEPT ![k].conn = @ + 1, ![k].slept = 0]
            /\ mission_state' = [mission_state EXCEPT
                                   !.last_error = loops[k].connectors[loops[k].conn]]
    /\ UNCHANGED <<proposals, executions, tasks, artifacts, telemetry, signals, missions,
                   stop_event, mission_task, clock>>

\* _signal_exists, were it to find no row ever
SignalNeverExists(s) == FALSE

\* _signal_exists: SELECT 1 FROM signals WHERE id = ?
SignalExists(s) == s \in DOMAIN signals

\* the max_items test, were it to let one more item through
MaxItemsPassed == mission_state.items_processed > mission_state.max_items

\* if mission_state.items_processed >= mission_state.max_items
MaxItemsReached == mission_state.items_processed >= mission_state.max_items

\* for raw_signal in signals: the stop check, the max_items check and
\* _process_signal up to _signal_exists
LoopSignal(k) ==
    /\ UNCHANGED <<FeedVars, LockVars>>
    /\ k \in DOMAIN loops
    /\ loops[k].pc = "sig"
    /\ IF loops[k].batch = <<>> \/ stop_event
       THEN /\ loops' = [loops EXCEPT ![k].pc = "sleep", ![k].batch = <<>>]
            /\ UNCHANGED stop_event
       ELSE IF MaxItemsReached
       THEN /\ stop_event' = TRUE
            /\ loops' = [loops EXCEPT ![k].pc = "sleep", ![k].batch = <<>>]
       ELSE IF SignalExists(Head(loops[k].batch))
       THEN /\ loops' = [loops EXCEPT ![k].batch = Tail(@)]
            /\ UNCHANGED stop_event
       ELSE /\ loops' = [loops EXCEPT ![k].pc = "score"]
            /\ UNCHANGED stop_event
    /\ UNCHANGED <<proposals, executions, tasks, artifacts, telemetry, signals, missions,
                   mission_state, mission_task, clock>>

\* the status _insert_signal stores
SignalStatus(proposal_id, recommended) ==
    IF proposal_id # NULL THEN "queued" ELSE recommended

\* _insert_signal: INSERT OR REPLACE INTO signals, id being the primary key
InsertSignal(sigs, s, recommended, proposal_id) ==
    (s :> [status |-> SignalStatus(proposal_id, recommended),
           proposal_id |-> proposal_id]) @@ sigs

\* _insert_signal with the columns that hold the text and the scoring
InsertScored(sigs, s, scored, proposal_id) ==
    (s :> [status |-> SignalStatus(proposal_id, scored.recommended),
           proposal_id |-> proposal_id,
           text |-> scored.text,
           rationale |-> scored.rationale,
           recommended_next_action |-> scored.recommended]) @@ sigs

\* _process_signal's test, were it to leave the authority mode out
CreatesProposalAnyMode(recommended, authority_mode) ==
    recommended = "draft proposal"

\* the proposal status, were draft_only not told apart
ProposalStatusAlwaysQueued(authority_mode) == "queued"

\* the proposal _process_signal creates under an authority mode
CreatesProposal(recommended, authority_mode) ==
    recommended = "draft proposal" /\ authority_mode # "scan_only"

ProposalStatusFor(authority_mode) ==
    IF authority_mode = "draft_only" THEN "draft" ELSE "queued"

ExecutionModeFor(authority_mode) ==
    IF authority_mode = "execute_after_approval" THEN "auto_after_approval" ELSE "manual"

\* ------------------------------------------------------------ the classifier
\* the phrases a signal's title and body are made of in this model
Vocabulary == {"need", "is there a tool", "legal", "hello"}

\* a text is the set of the phrases it holds
Texts == SUBSET Vocabulary

\* Python's `keyword in phrase` on the phrases of the vocabulary
Occurs(keyword, phrase) ==
    \/ keyword = phrase
    \/ keyword = "tool" /\ phrase = "is there a tool"

\* `keyword in text_lower`
Within(keyword, text) == \E phrase \in text : Occurs(keyword, phrase)

KEYWORDS ==
    {"need", "looking for", "is there a tool", "generator", "template", "lease", "resume",
     "pdf", "proposal", "automation", "integrate", "web app", "tool"}

RISK_KEYWORDS ==
    [legal |-> {"legal", "law", "attorney", "contract"},
     medical |-> {"medical", "health", "clinic", "patient"},
     financial |-> {"loan", "investment", "tax", "accounting"}]

\* _heuristic_score: the number of keywords that occur in the text
HeuristicScore(text) == Cardinality({keyword \in KEYWORDS : Within(keyword, text)})

\* _risk_flags: the families one of whose keywords occurs in the text
RiskFlags(text) ==
    {label \in DOMAIN RISK_KEYWORDS : \E keyword \in RISK_KEYWORDS[label] : Within(keyword, text)}

RECURSIVE TextLength(_)
\* len(text): each phrase and one separator after it
TextLength(text) ==
    IF text = {} THEN 0
    ELSE LET phrase == CHOOSE w \in text : TRUE
         IN  Len(phrase) + 1 + TextLength(text \ {phrase})

\* _estimate_tokens: max(1, int(len(text) / 4))
EstimateTokens(text) == IF TextLength(text) \div 4 > 1 THEN TextLength(text) \div 4 ELSE 1

\* _ollama_classify returning None: no httpx, the request failed, or the
\* answer holds no JSON object
NoClassification == [parsed |-> FALSE]

\* what _ollama_classify returns: None, or the keys of the parsed object that
\* _score_signal goes on to read, with the two usage counts of the response
\* (NULL when the response has none)
LlmResults ==
    {NoClassification} \cup
    [parsed : {TRUE},
     recommended_next_action : {"absent", "draft proposal"},
     risk_flags : {"absent", "empty", "flagged"},
     prompt_eval_count : {NULL, 3},
     eval_count : {NULL, 2}]

\* the threshold of line 795 taken at 1
HeuristicActionFromOne(text) == IF HeuristicScore(text) >= 1 THEN "draft proposal" ELSE "ignore"

\* line 795
HeuristicAction(text) == IF HeuristicScore(text) >= 2 THEN "draft proposal" ELSE "ignore"

\* the tokens_used row with its payload
TokensUsed(tokens, provider) ==
    [type |-> "tokens_used", proposal_id |-> NULL, execution_id |-> NULL,
     tokens |-> tokens, provider |-> provider]

\* _score_signal: the recommended action, the telemetry rows it records and
\* whether it counts a model call
ScoreSignal(text, llm) ==
    LET refined == llm.parsed
        action == IF refined /\ llm.recommended_next_action # "absent"
                  THEN llm.recommended_next_action
                  ELSE HeuristicAction(text)
        flagged == IF refined /\ llm.risk_flags # "absent"
                   THEN llm.risk_flags = "flagged"
                   ELSE RiskFlags(text) # {}
        tokens_used == llm.prompt_eval_count + llm.eval_count
        model_call == [type |-> "model_call", proposal_id |-> NULL, execution_id |-> NULL]
    IN  [text |-> text,
         rationale |-> IF refined THEN "llm_assisted" ELSE "keyword heuristic",
         recommended |-> IF flagged THEN "needs clarification" ELSE action,
         model_call |-> refined,
         rows |-> IF refined
                  THEN IF tokens_used # 0
                       THEN SetToBag({TokensUsed(tokens_used, "ollama"), model_call})
                       ELSE SetToBag({model_call})
                  ELSE SetToBag({TokensUsed(EstimateTokens(text), "estimate")})]

\* _process_signal once the signal is known to be new (lines 843-870), for
\* the result `scored` of _score_signal, and the publish of its event
\* (lines 930-932)
ProcessSignal(k, scored) ==
    /\ UNCHANGED <<FeedFrame, LockVars>>
    /\ Published(FeedEvent("signal", NULL))
    /\ k \in DOMAIN loops
    /\ loops[k].pc = "score"
    /\ LET s == Head(loops[k].batch)
           recommended == scored.recommended
           mode == mission_state.authority_mode
           creates == CreatesProposal(recommended, mode)
           proposal_id == IF creates THEN Len(proposals) + 1 ELSE NULL
           tel == RecordTelemetry(telemetry (+) scored.rows, "connector_item", NULL, NULL)
       IN  /\ proposals' =
                 IF creates
                 THEN Append(proposals, [signal_id |-> s, status |-> ProposalStatusFor(mode),
                                         execution_mode |-> ExecutionModeFor(mode),
                                         mission_id |-> mission_state.current_mission_id])
                 ELSE proposals
           /\ telemetry' = IF creates
                           THEN RecordTelemetry(tel, "proposal_created", proposal_id, NULL)
                           ELSE tel
           /\ signals' = InsertScored(signals, s, scored, proposal_id)
    /\ mission_state' = [mission_state EXCEPT
                           !.items_processed = @ + 1,
                           !.model_calls = IF scored.model_call THEN @ + 1 ELSE @]
    /\ loops' = [loops EXCEPT ![k].pc = "sig", ![k].batch = Tail(@)]
    /\ UNCHANGED <<executions, tasks, artifacts, missions, stop_event, mission_task,
                   clock>>

\* _process_signal on a signal of text `text` when _ollama_classify returns llm
LoopClassify(k, text, llm) == ProcessSignal(k, ScoreSignal(text, llm))

\* a text the keyword heuristic gives each recommendation to
TextFor(recommended) ==
    CASE recommended = "draft proposal" -> {"is there a tool"}
      [] recommended = "needs clarification" -> {"legal"}
      [] recommended = "ignore" -> {"hello"}

\* _process_signal where no LLM answers, on a text the classifier gives
\* `recommended` to
LoopScore(k, recommended) == LoopClassify(k, TextFor(recommended), NoClassification)

\* 60 / rate raises ZeroDivisionError
ThrottleRaises(rate) == rate = 0

\* max(5, 60 / rate), in seconds
Throttle(rate) == IF 120 \div rate > 5 THEN 120 \div rate ELSE 5

\* await asyncio.sleep(max(5, 60 / rate)): a rate of 0 raises, which the
\* except Exception traps
LoopSleep(k) ==
    /\ UNCHANGED <<FeedVars, LockVars>>
    /\ k \in DOMAIN loops
    /\ loops[k].pc = "sleep"
    /\ loops' = [loops EXCEPT ![k].pc = "conn", ![k].conn = @ + 1,
                              ![k].slept = IF ThrottleRaises(mission_state.rate) THEN @
                                           ELSE Throttle(mission_state.rate)]
    /\ mission_state' =
          IF ThrottleRaises(mission_state.rate)
          THEN [mission_state EXCEPT !.last_error = loops[k].connectors[loops[k].conn]]
          ELSE mission_state
    /\ UNCHANGED <<proposals, executions, tasks, artifacts, telemetry, signals, missions,
                   stop_event, mission_task, clock>>

\* _signal_from_connector or _process_signal raises (a malformed item, a
\* store error): except Exception, and on to the next connector
LoopRaise(k) ==
    /\ UNCHANGED <<FeedVars, LockVars>>
    /\ k \in DOMAIN loops
    /\ loops[k].pc = "score"
    /\ loops' = [loops EXCEPT ![k].pc = "conn", ![k].conn = @ + 1, ![k].batch = <<>>]
    /\ mission_state' = [mission_state EXCEPT
                           !.last_error = loops[k].connectors[loops[k].conn]]
    /\ UNCHANGED <<proposals, executions, tasks, artifacts, telemetry, signals, missions,
                   stop_event, mission_task, clock>>

\* the ends_at check that closes one pass over the connectors
LoopEnds(k) ==
    /\ UNCHANGED <<FeedVars, LockVars>>
    /\ k \in DOMAIN loops
    /\ loops[k].pc = "ends"
    /\ \E now \in clock..MaxClock :
         /\ clock' = now
         /\ stop_event' = (stop_event \/ (mission_state.ends_at # NULL /\ now >= mission_state.ends_at))
    /\ loops' = [loops EXCEPT ![k].pc = "while", ![k].conn = 0]
    /\ UNCHANGED <<proposals, executions, tasks, artifacts, telemetry, signals, missions,
                   mission_state, mission_task>>

\* --------------------------------------------------------------- the feed
\* the queues created so far, by number
Queues == DOMAIN queue_items

\* the queues in broadcaster.queues
Subscribed == {queues[i] : i \in DOMAIN queues}

\* list.remove(queue), guarded by "if queue in self.queues"
Remove(subscribers, q) == SelectSeq(subscribers, LAMBDA x : x # q)

\* _sse_events up to its loop: broadcaster.subscribe() makes an unbounded
\* asyncio.Queue and appends it to broadcaster.queues
Subscribe(maxSubscribers) ==
    /\ Len(queue_items) < maxSubscribers
    /\ queue_items' = Append(queue_items, <<>>)
    /\ streams' = Append(streams, <<>>)
    /\ queues' = Append(queues, Len(queue_items) + 1)
    /\ UNCHANGED <<published, proposals, executions, tasks, artifacts, telemetry, signals,
                   missions, MissionVars, LockVars>>

\* _sse_events' finally clause, when the client has gone: unsubscribe(queue)
Unsubscribe(q) ==
    /\ q \in Subscribed
    /\ queues' = Remove(queues, q)
    /\ UNCHANGED <<queue_items, streams, published, proposals, executions, tasks,
                   artifacts, telemetry, signals, missions, MissionVars, LockVars>>

\* a call of broadcaster.publish; the event is named by the call's number
BroadcasterPublish(maxEvents) ==
    /\ published < maxEvents
    /\ published' = published + 1
    /\ queue_items' = Publish(queues, queue_items, published + 1)
    /\ UNCHANGED <<queues, streams, proposals, executions, tasks, artifacts, telemetry,
                   signals, missions, MissionVars, LockVars>>

\* _sse_events' loop: queue.get() hands the oldest event over, and the
\* subscriber yields it to its client
Get(q) ==
    /\ q \in Subscribed
    /\ queue_items[q] # <<>>
    /\ streams' = [streams EXCEPT ![q] = Append(@, Head(queue_items[q]))]
    /\ queue_items' = [queue_items EXCEPT ![q] = Tail(@)]
    /\ UNCHANGED <<queues, published, proposals, executions, tasks, artifacts, telemetry,
                   signals, missions, MissionVars, LockVars>>

\* ------------------------------------------------------------------ locks
\* `async with lock:` entered and left
Acquire(l) == [do |-> "acquire", lock |-> l]

Release(l) == [do |-> "release", lock |-> l]

\* an `async with lock:` block whose body takes no lock
Section(l) == <<Acquire(l), Release(l)>>

\* _record_telemetry and the other store helpers: one block under db_lock
StoreLocks == Section("db_lock")

\* FeedBroadcaster.publish, subscribe and unsubscribe: one block under the
\* broadcaster's lock; publish awaits queue.put inside it, on queues that
\* are never full
BroadcasterLocks == Section("broadcaster.lock")

\* _emit_execution_event: publish, then _record_telemetry for the event
\* types that are recorded
EmitExecutionEventLocks(recorded) ==
    BroadcasterLocks \o (IF recorded THEN StoreLocks ELSE <<>>)

\* _start_execution_task: _insert_execution, _record_telemetry,
\* _emit_execution_event("execution_queued"), then the registry block
StartExecutionTaskLocks ==
    StoreLocks \o StoreLocks \o EmitExecutionEventLocks(FALSE) \o Section("execution_lock")

\* approve: the SELECT, _update_proposal_status, _insert_artifact,
\* _record_telemetry and, for an auto_after_approval proposal,
\* _start_execution_task
ApproveLocks(auto) ==
    StoreLocks \o StoreLocks \o StoreLocks \o StoreLocks
    \o (IF auto THEN StartExecutionTaskLocks ELSE <<>>)

\* execute: the SELECT, then _start_execution_task
ExecuteLocks == StoreLocks \o StartExecutionTaskLocks

\* _cancel_execution: the registry lookup; the event and the task are
\* cancelled after the block
CancelExecutionLocks == Section("execution_lock")

\* cancel_execution: _get_execution, _cancel_execution, the two status
\* updates and _emit_execution_event("execution_cancelled")
CancelLocks ==
    StoreLocks \o CancelExecutionLocks \o StoreLocks \o StoreLocks
    \o EmitExecutionEventLocks(TRUE)

RECURSIVE Repeat(_, _)
\* a program taken n times
Repeat(program, n) == IF n = 0 THEN <<>> ELSE program \o Repeat(program, n - 1)

\* _cancel_running_executions, were it to cancel each row inside the SELECT's
\* db_lock block
CancelRunningExecutionsNested(rows) ==
    <<Acquire("db_lock")>> \o Repeat(CancelExecutionLocks, rows) \o <<Release("db_lock")>>

\* _cancel_running_executions: the SELECT under db_lock, then
\* _cancel_execution for each of its rows; mission/stop takes no other lock
CancelRunningExecutions(rows) == StoreLocks \o Repeat(CancelExecutionLocks, rows)

\* the emit of _run_execution: _append_execution_log, then
\* _emit_execution_event
WorkerEmitLocks(recorded) == StoreLocks \o EmitExecutionEventLocks(recorded)

\* the try body of _run_execution for an executor that emits one event and
\* returns one artifact
TryLocks ==
    StoreLocks \o StoreLocks \o WorkerEmitLocks(TRUE) \o StoreLocks
    \o WorkerEmitLocks(FALSE)
    \o StoreLocks \o StoreLocks
    \o StoreLocks \o WorkerEmitLocks(FALSE)
    \o StoreLocks \o StoreLocks \o WorkerEmitLocks(TRUE)

\* either except clause of _run_execution: two status updates and an emit
HandlerLocks == StoreLocks \o StoreLocks \o WorkerEmitLocks(TRUE)

\* _run_execution: the try body, or the blocks of it that were left when it
\* was cancelled or raised, followed by the except clause
RunExecutionLocks(left) ==
    IF left = Len(TryLocks) \div 2 THEN TryLocks
    ELSE SubSeq(TryLocks, 1, 2 * left) \o HandlerLocks

\* the coroutines that take locks
Programs ==
    {ApproveLocks(auto) : auto \in BOOLEAN}
    \cup {ExecuteLocks, CancelLocks, BroadcasterLocks}
    \cup {CancelRunningExecutions(rows) : rows \in 0..MaxExecutions}
    \cup {RunExecutionLocks(left) : left \in {0, 3, Len(TryLocks) \div 2}}

\* a request is served or a task takes its first step
Enter(program, maxRoutines) ==
    /\ Len(routines) < maxRoutines
    /\ routines' = Append(routines, program)
    /\ UNCHANGED <<lock_holder, proposals, executions, tasks, artifacts, telemetry,
                   signals, missions, MissionVars, FeedVars>>

\* asyncio.Lock.acquire: taken when the lock is free; a routine that finds
\* it held, by another routine or by itself, waits
AcquireLock(r) ==
    /\ r \in DOMAIN routines
    /\ routines[r] # <<>>
    /\ Head(routines[r]).do = "acquire"
    /\ lock_holder[Head(routines[r]).lock] = NULL
    /\ lock_holder' = [lock_holder EXCEPT ![Head(routines[r]).lock] = r]
    /\ routines' = [routines EXCEPT ![r] = Tail(@)]
    /\ UNCHANGED <<proposals, executions, tasks, artifacts, telemetry, signals, missions,
                   MissionVars, FeedVars>>

\* the end of an `async with` block
ReleaseLock(r) ==
    /\ r \in DOMAIN routines
    /\ routines[r] # <<>>
    /\ Head(routines[r]).do = "release"
    /\ lock_holder' = [lock_holder EXCEPT ![Head(routines[r]).lock] = NULL]
    /\ routines' = [routines EXCEPT ![r] = Tail(@)]
    /\ UNCHANGED <<proposals, executions, tasks, artifacts, telemetry, signals, missions,
                   MissionVars, FeedVars>>

\* a step of the loop task k
LoopStep(k) ==
    \/ LoopInit(k)
    \/ LoopRecord(k)
    \/ LoopWhile(k)
    \/ \E ok \in BOOLEAN, result \in FetchResultsOf(MaxLoopSignals) : LoopFetch(k, ok, result)
    \/ LoopSignal(k)
    \/ \E r \in Recommendations : LoopScore(k, r)
    \/ LoopRaise(k)
    \/ LoopSleep(k)
    \/ LoopEnds(k)

\* a call of _insert_signal on its own, on the table as it is
StoreInsert(s, recommended, proposal_id) ==
    /\ signals' = InsertSignal(signals, s, recommended, proposal_id)
    /\ UNCHANGED <<proposals, executions, tasks, artifacts, telemetry, missions,
                   MissionVars, FeedVars, LockVars>>

\* ------------------------------------------------------------ specification
Next ==
    \/ \E p \in 1..(Len(proposals) + 1) : Approve(p, MaxApprovals, MaxExecutions)
    \/ \E p \in 1..(Len(proposals) + 1) : Reject(p)
    \/ \E p \in 1..(Len(proposals) + 1), lane \in LaneInputs, allow_rerun \in BOOLEAN :
          Execute(p, lane, allow_rerun, MaxExecutions)
    \/ \E e \in 1..(Len(executions) + 1) : CancelExecution(e)
    \/ \E e \in DOMAIN tasks : WorkerBegin(e)
    \/ \E e \in DOMAIN tasks : WorkerCancelled(e)
    \/ \E e \in DOMAIN tasks : WorkerFail(e)
    \/ \E e \in DOMAIN tasks : WorkerStep(e)
    \/ \E pl \in Payloads : StartMission(pl, MaxStarts)
    \/ StopMission
    \/ \E k \in DOMAIN loops : LoopInit(k)
    \/ \E k \in DOMAIN loops : LoopRecord(k)
    \/ \E k \in DOMAIN loops : LoopWhile(k)
    \/ \E k \in DOMAIN loops, ok \in BOOLEAN, result \in FetchResults : LoopFetch(k, ok, result)
    \/ \E k \in DOMAIN loops : LoopSignal(k)
    \/ \E k \in DOMAIN loops, r \in Recommendations : LoopScore(k, r)
    \/ \E k \in DOMAIN loops : LoopSleep(k)
    \/ \E k \in DOMAIN loops : LoopEnds(k)

Spec == Init /\ [][Next]_vars

\* the lifecycle with room for two executions: approve, execute and the
\* workers, on the proposals one mission creates
NextRace ==
    \/ \E p \in 1..(Len(proposals) + 1) : Approve(p, MaxApprovals, MaxRaceExecutions)
    \/ \E p \in 1..(Len(proposals) + 1), lane \in LaneInputs, allow_rerun \in BOOLEAN :
          Execute(p, lane, allow_rerun, MaxRaceExecutions)
    \/ \E e \in DOMAIN tasks : WorkerBegin(e)
    \/ \E e \in DOMAIN tasks : WorkerStep(e)
    \/ \E pl \in Payloads : StartMission(pl, MaxStarts)
    \/ \E k \in DOMAIN loops : LoopInit(k)
    \/ \E k \in DOMAIN loops : LoopRecord(k)
    \/ \E k \in DOMAIN loops : LoopWhile(k)
    \/ \E k \in DOMAIN loops, ok \in BOOLEAN, result \in FetchResults : LoopFetch(k, ok, result)
    \/ \E k \in DOMAIN loops : LoopSignal(k)
    \/ \E k \in DOMAIN loops, r \in Recommendations : LoopScore(k, r)
    \/ \E k \in DOMAIN loops : LoopSleep(k)
    \/ \E k \in DOMAIN loops : LoopEnds(k)

SpecRace == Init /\ [][NextRace]_vars

\* the mission engine alone, with room for two mission/start requests
NextStart ==
    \/ \E pl \in Payloads : StartMission(pl, MaxRaceStarts)
    \/ StopMission
    \/ \E k \in DOMAIN loops : LoopInit(k)
    \/ \E k \in DOMAIN loops : LoopRecord(k)
    \/ \E k \in DOMAIN loops : LoopWhile(k)
    \/ \E k \in DOMAIN loops, ok \in BOOLEAN, result \in FetchResults : LoopFetch(k, ok, result)
    \/ \E k \in DOMAIN loops : LoopSignal(k)
    \/ \E k \in DOMAIN loops, r \in Recommendations : LoopScore(k, r)
    \/ \E k \in DOMAIN loops : LoopSleep(k)
    \/ \E k \in DOMAIN loops : LoopEnds(k)

SpecStart == Init /\ [][NextStart]_vars

\* one mission and the authority endpoint: signal processing under every
\* mode, the mode switched at any moment
NextAuthority ==
    \/ \E pl \in Payloads : StartMission(pl, MaxStarts)
    \/ StopMission
    \/ \E m \in 1..(MaxClock + 1), mode \in AuthorityInputs : SetAuthority(m, mode)
    \/ \E k \in DOMAIN loops : LoopInit(k)
    \/ \E k \in DOMAIN loops : LoopRecord(k)
    \/ \E k \in DOMAIN loops : LoopWhile(k)
    \/ \E k \in DOMAIN loops, ok \in BOOLEAN, result \in FetchResults : LoopFetch(k, ok, result)
    \/ \E k \in DOMAIN loops : LoopSignal(k)
    \/ \E k \in DOMAIN loops, r \in Recommendations : LoopScore(k, r)
    \/ \E k \in DOMAIN loops : LoopSleep(k)
    \/ \E k \in DOMAIN loops : LoopEnds(k)

SpecAuthority == Init /\ [][NextAuthority]_vars

\* the approval scenario: one mission, approvals and the workers they start;
\* no cancel, no reject, no stop, no executor failure
NextScenario ==
    \/ \E p \in 1..(Len(proposals) + 1) : Approve(p, MaxApprovals, MaxExecutions)
    \/ \E e \in DOMAIN tasks : WorkerBegin(e)
    \/ \E e \in DOMAIN tasks : WorkerStep(e)
    \/ \E pl \in Payloads : StartMission(pl, MaxStarts)
    \/ \E k \in DOMAIN loops : LoopInit(k)
    \/ \E k \in DOMAIN loops : LoopRecord(k)
    \/ \E k \in DOMAIN loops : LoopWhile(k)
    \/ \E k \in DOMAIN loops, ok \in BOOLEAN, result \in FetchResults : LoopFetch(k, ok, result)
    \/ \E k \in DOMAIN loops : LoopSignal(k)
    \/ \E k \in DOMAIN loops, r \in Recommendations : LoopScore(k, r)
    \/ \E k \in DOMAIN loops : LoopSleep(k)
    \/ \E k \in DOMAIN loops : LoopEnds(k)

\* the event loop runs every task that is ready: a worker task that can take
\* its next step takes it
WorkersRun ==
    \A e \in 1..MaxExecutions : WF_vars(WorkerBegin(e)) /\ WF_vars(WorkerStep(e))

FairScenario == Init /\ [][NextScenario]_vars /\ WorkersRun

\* every operation, the event loop running every worker task that is ready,
\* a cancelled one included
FairWorkers ==
    Spec /\ WorkersRun /\ \A e \in 1..MaxExecutions : WF_vars(WorkerCancelled(e))

\* the manual scenario: approve, reject and execute requests and the workers;
\* no cancel, no stop, no executor failure
NextManual ==
    \/ \E p \in 1..(Len(proposals) + 1) : Approve(p, MaxApprovals, MaxExecutions)
    \/ \E p \in 1..(Len(proposals) + 1) : Reject(p)
    \/ \E p \in 1..(Len(proposals) + 1), lane \in LaneInputs, allow_rerun \in BOOLEAN :
          Execute(p, lane, allow_rerun, MaxExecutions)
    \/ \E e \in DOMAIN tasks : WorkerBegin(e)
    \/ \E e \in DOMAIN tasks : WorkerStep(e)
    \/ \E pl \in Payloads : StartMission(pl, MaxStarts)
    \/ \E k \in DOMAIN loops : LoopInit(k)
    \/ \E k \in DOMAIN loops : LoopRecord(k)
    \/ \E k \in DOMAIN loops : LoopWhile(k)
    \/ \E k \in DOMAIN loops, ok \in BOOLEAN, result \in FetchResults : LoopFetch(k, ok, result)
    \/ \E k \in DOMAIN loops : LoopSignal(k)
    \/ \E k \in DOMAIN loops, r \in Recommendations : LoopScore(k, r)
    \/ \E k \in DOMAIN loops : LoopSleep(k)
    \/ \E k \in DOMAIN loops : LoopEnds(k)

FairManual == Init /\ [][NextManual]_vars /\ WorkersRun

\* the polling loop of one mission (one mission/start request), with batches
\* of two signals, connectors that fail and items that fail
NextLoop ==
    \/ \E pl \in LoopPayloads : StartMission(pl, 1)
    \/ StopMission
    \/ \E k \in DOMAIN loops : LoopInit(k)
    \/ \E k \in DOMAIN loops : LoopRecord(k)
    \/ \E k \in DOMAIN loops : LoopWhile(k)
    \/ \E k \in DOMAIN loops, ok \in BOOLEAN, result \in FetchResultsOf(MaxLoopSignals) :
          LoopFetch(k, ok, result)
    \/ \E k \in DOMAIN loops : LoopSignal(k)
    \/ \E k \in DOMAIN loops, r \in Recommendations : LoopScore(k, r)
    \/ \E k \in DOMAIN loops : LoopRaise(k)
    \/ \E k \in DOMAIN loops : LoopSleep(k)
    \/ \E k \in DOMAIN loops : LoopEnds(k)

SpecLoop == Init /\ [][NextLoop]_vars

\* the event loop runs the loop task whenever it is ready: every fetch
\* returns or raises and every sleep ends
FairLoop == SpecLoop /\ WF_vars(LoopStep(1))

\* the signals table under any sequence of _insert_signal calls
\* one mission whose signals are classified from their text, with and
\* without an answer of the LLM
NextScore ==
    \/ \E pl \in Payloads : StartMission(pl, 1)
    \/ \E k \in DOMAIN loops : LoopInit(k)
    \/ \E k \in DOMAIN loops : LoopRecord(k)
    \/ \E k \in DOMAIN loops : LoopWhile(k)
    \/ \E k \in DOMAIN loops, ok \in BOOLEAN, result \in FetchResults : LoopFetch(k, ok, result)
    \/ \E k \in DOMAIN loops : LoopSignal(k)
    \/ \E k \in DOMAIN loops, text \in Texts, llm \in LlmResults : LoopClassify(k, text, llm)
    \/ \E k \in DOMAIN loops : LoopSleep(k)
    \/ \E k \in DOMAIN loops : LoopEnds(k)

SpecScore == Init /\ [][NextScore]_vars

NextStore ==
    \/ \E s \in 1..MaxStoreSignals, recommended \in Recommendations,
          proposal_id \in {NULL, 1} :
          StoreInsert(s, recommended, proposal_id)

SpecStore == Init /\ [][NextStore]_vars

\* the broadcaster, its subscribers and its publishers
\* mission/start payloads whose proposals are executed on approval
StopPayloads ==
    [duration : {1}, sources : {<<"reddit_smallbusiness">>}, rate : {2}, max_items : {1},
     authority_mode : {"execute_after_approval"}]

\* missions one after the other, the executions their approvals start, and
\* mission/stop
NextStop ==
    \/ \E p \in 1..(Len(proposals) + 1) : Approve(p, 1, MaxExecutions)
    \/ \E e \in DOMAIN tasks : WorkerBegin(e)
    \/ \E e \in DOMAIN tasks : WorkerCancelled(e)
    \/ \E e \in DOMAIN tasks : WorkerStep(e)
    \/ \E pl \in StopPayloads : StartMission(pl, MaxRaceStarts)
    \/ StopMission
    \/ \E k \in DOMAIN loops : LoopInit(k)
    \/ \E k \in DOMAIN loops : LoopRecord(k)
    \/ \E k \in DOMAIN loops : LoopWhile(k)
    \/ \E k \in DOMAIN loops, ok \in BOOLEAN, result \in FetchResults : LoopFetch(k, ok, result)
    \/ \E k \in DOMAIN loops : LoopSignal(k)
    \/ \E k \in DOMAIN loops, r \in Recommendations : LoopScore(k, r)
    \/ \E k \in DOMAIN loops : LoopSleep(k)
    \/ \E k \in DOMAIN loops : LoopEnds(k)

SpecStop == Init /\ [][NextStop]_vars

\* one subscriber of the feed, one mission, the execution an approval
\* starts, its worker and the cancel API
NextEvents ==
    \/ Subscribe(1)
    \/ \E q \in Queues : Get(q)
    \/ \E p \in 1..(Len(proposals) + 1) : Approve(p, 1, MaxExecutions)
    \/ \E e \in 1..(Len(executions) + 1) : CancelExecution(e)
    \/ \E e \in DOMAIN tasks : WorkerBegin(e)
    \/ \E e \in DOMAIN tasks : WorkerCancelled(e)
    \/ \E e \in DOMAIN tasks : WorkerFail(e)
    \/ \E e \in DOMAIN tasks : WorkerStep(e)
    \/ \E pl \in StopPayloads : StartMission(pl, 1)
    \/ \E k \in DOMAIN loops : LoopInit(k)
    \/ \E k \in DOMAIN loops : LoopRecord(k)
    \/ \E k \in DOMAIN loops : LoopWhile(k)
    \/ \E k \in DOMAIN loops, ok \in BOOLEAN, result \in FetchResults : LoopFetch(k, ok, result)
    \/ \E k \in DOMAIN loops : LoopSignal(k)
    \/ \E k \in DOMAIN loops, r \in Recommendations : LoopScore(k, r)
    \/ \E k \in DOMAIN loops : LoopSleep(k)
    \/ \E k \in DOMAIN loops : LoopEnds(k)

SpecEvents == Init /\ [][NextEvents]_vars

\* the coroutines by the locks they take
NextLocks ==
    \/ \E program \in Programs : Enter(program, MaxRoutines)
    \/ \E r \in DOMAIN routines : AcquireLock(r)
    \/ \E r \in DOMAIN routines : ReleaseLock(r)

SpecLocks == Init /\ [][NextLocks]_vars

\* the event loop runs every coroutine that can go on
FairLocks ==
    SpecLocks /\ \A r \in 1..MaxRoutines : WF_vars(AcquireLock(r)) /\ WF_vars(ReleaseLock(r))

NextFeed ==
    \/ Subscribe(MaxSubscribers)
    \/ \E q \in Queues : Unsubscribe(q)
    \/ BroadcasterPublish(MaxEvents)
    \/ \E q \in Queues : Get(q)

SpecFeed == Init /\ [][NextFeed]_vars

\* ------------------------------------------------------------------ claims
\* rows of the kinds the claims count
ApprovalEvent(p) == [type |-> "proposal_approved", proposal_id |-> p, execution_id |-> NULL]

\* a step that records an approval of proposal p
ApprovalRecorded(p) ==
    Count(telemetry', ApprovalEvent(p)) > Count(telemetry, ApprovalEvent(p))

\* a step that creates an Execution row for proposal p
ExecutionCreated(p) ==
    /\ Len(executions') > Len(executions)
    /\ executions'[Len(executions')].proposal_id = p

\* the executions of proposal p that are queued or running
InFlight(p) ==
    {e \in DOMAIN executions :
        executions[e].proposal_id = p /\ executions[e].status \in {"queued", "running"}}

\* the lifecycle graph of the data model, read generously: approve from draft
\* or queued, reject or cancel from any status that is not terminal, and a
\* re-execution taking a terminal proposal back to executing
LifecycleEdge(a, b) ==
    \/ a = b
    \/ a = "draft" /\ b \in {"queued", "approved"}
    \/ a = "queued" /\ b = "approved"
    \/ a = "approved" /\ b = "executing"
    \/ a = "executing" /\ b \in TerminalProposal
    \/ a \notin TerminalProposal /\ b = "cancelled"
    \/ a \in TerminalProposal /\ b = "executing"

\* C1: every change of a proposal's status, by whatever operation or worker
\* step, is an edge of the lifecycle graph
\* draft -> queued -> approved -> executing -> {executed, failed, cancelled}.
C1_LifecycleEdges ==
    [][\A p \in DOMAIN proposals :
          LifecycleEdge(proposals[p].status, proposals'[p].status)]_vars

\* C2: in every reachable state a proposal has at most one execution that is
\* queued or running.
C2_OneInFlight ==
    \A p \in DOMAIN proposals : Cardinality(InFlight(p)) <= 1

\* C3: while execution_blocked is set, execute answers 409 and approve answers
\* success with execution_id null; no step taken from such a state creates an
\* Execution row, and an approval recorded there leaves the proposal approved.
C3_BlockedCreatesNothing ==
    /\ [](mission_state.execution_blocked =>
            \A p \in DOMAIN proposals :
               /\ ApproveResponse(p) = Response(200, NULL)
               /\ \A lane \in EXECUTORS, allow_rerun \in BOOLEAN :
                     ExecuteResponse(p, lane, allow_rerun) = Response(409, NULL))
    /\ [][mission_state.execution_blocked =>
            /\ Len(executions') = Len(executions)
            /\ Len(tasks') = Len(tasks)
            /\ \A p \in DOMAIN proposals :
                  ApprovalRecorded(p) => proposals'[p].status = "approved"]_vars

\* an auto_after_approval proposal approved under the kill switch: with one
\* mission the switch is never released, and an approval before it was set
\* would have enqueued
C3_Witness ==
    /\ mission_state.execution_blocked
    /\ executions = <<>>
    /\ \E p \in DOMAIN proposals :
          /\ proposals[p].execution_mode = "auto_after_approval"
          /\ proposals[p].status = "approved"
          /\ Count(telemetry, ApprovalEvent(p)) > 0

C5_StaysQuiet ==
    [][(/\ mission_state.execution_blocked
        /\ mission_state'.execution_blocked
        /\ RunningExecutions(mission_state.current_mission_id) = {})
       => \A e \in DOMAIN executions' :
             executions'[e].mission_id = mission_state.current_mission_id
                => executions'[e].status # "running"]_vars

\* C6: an approval is recorded (status written, snapshot stored, execution
\* enqueued) only for a proposal that is queued or draft.
C6_ApproveOnlyQueuedOrDraft ==
    [][\A p \in DOMAIN proposals :
          ApprovalRecorded(p) => proposals[p].status \in {"queued", "draft"}]_vars

\* C7: execute answers 409 unless the proposal is approved, or executed with
\* allow_rerun; a step that creates an Execution row without an approval
\* starts from approved or executed, and changes no proposal and no artifact.
C7_ExecuteGate ==
    /\ [](\A p \in DOMAIN proposals, lane \in EXECUTORS, allow_rerun \in BOOLEAN :
            ~(proposals[p].status = "approved"
              \/ (proposals[p].status = "executed" /\ allow_rerun))
            => ExecuteResponse(p, lane, allow_rerun) = Response(409, NULL))
    /\ [][\A p \in DOMAIN proposals :
            ExecutionCreated(p) /\ ~ApprovalRecorded(p)
            => /\ proposals[p].status \in {"approved", "executed"}
               /\ proposals' = proposals
               /\ artifacts' = artifacts]_vars

\* an execution in a lane that only execute can name, queued for a proposal
\* that is approved
C7_Witness ==
    \E e \in DOMAIN executions :
       /\ executions[e].lane = "doc"
       /\ executions[e].status = "queued"
       /\ proposals[executions[e].proposal_id].status = "approved"

\* C8: no execution is created for a proposal that is executed, cancelled or
\* failed by an operation that carries no allow_rerun: an approval.
C8_TerminalNeedsRerun ==
    [][\A p \in DOMAIN proposals :
          ExecutionCreated(p) /\ proposals[p].status \in TerminalProposal
          => ~ApprovalRecorded(p)]_vars

\* C9: execute with allow_rerun on a failed or cancelled proposal, with a
\* valid lane and the kill switch off, enqueues (answers 200).
C9_RerunFailedOrCancelled ==
    \A p \in DOMAIN proposals, lane \in EXECUTORS :
       proposals[p].status \in {"failed", "cancelled"} /\ ~mission_state.execution_blocked
       => ExecuteResponse(p, lane, TRUE).code = 200

\* the mission loop tasks that have not ended
ActiveLoops == {k \in DOMAIN loops : loops[k].pc \notin {"done", "crashed"}}

\* C10: mission/start answers 409 while a mission is running, and at most one
\* mission loop task is active at any time.
C10_OneLoop ==
    /\ mission_state.running =>
          \A pl \in Payloads : StartResponse(pl) = Response(409, NULL)
    /\ Cardinality(ActiveLoops) <= 1

\* the mission rows the store shows as running
RunningMissions == {m \in DOMAIN missions : missions[m].status = "running"}

\* C11: at most one mission row has status running at any time, and once
\* mission/stop has ended the current mission its row has status stopped.
C11_OneRunningMissionRow ==
    /\ Cardinality(RunningMissions) <= 1
    /\ (/\ mission_state.execution_blocked
        /\ ~mission_state.running
        /\ mission_state.current_mission_id \in DOMAIN missions)
       => missions[mission_state.current_mission_id].status = "stopped"

\* a loop about to process, in a pass it is allowed to continue, a signal
\* whose id the store already holds
AtStoredSignal(k) ==
    /\ loops[k].pc = "sig"
    /\ loops[k].batch # <<>>
    /\ Head(loops[k].batch) \in DOMAIN signals
    /\ ~stop_event
    /\ mission_state.items_processed < mission_state.max_items

\* C12: the step of a loop that meets a signal whose id is already stored
\* adds no signal row, no proposal and no telemetry row and leaves
\* items_processed as it was: the signal is dropped from the batch.
C12_StoredSignalSkipped ==
    [][\A k \in DOMAIN loops :
          AtStoredSignal(k) /\ loops'[k] # loops[k]
          => /\ signals' = signals
             /\ proposals' = proposals
             /\ telemetry' = telemetry
             /\ mission_state' = mission_state
             /\ loops'[k].batch = Tail(loops[k].batch)
             /\ loops'[k].pc = "sig"]_vars

\* the second pass of a mission has fetched the signal the first pass stored
C12_Witness ==
    \E k \in DOMAIN loops :
       /\ AtStoredSignal(k)
       /\ mission_state.items_processed > 0
       /\ signals[Head(loops[k].batch)].proposal_id # NULL

\* a step that stores signal s, which the store did not hold
SignalStored(s) == s \notin DOMAIN signals /\ s \in DOMAIN signals'

C14_ProposalFollowsMode ==
    [][\A s \in Signals :
          SignalStored(s) /\ Len(proposals') > Len(proposals)
          => LET new == proposals'[Len(proposals')]
                 mode == mission_state.authority_mode
             IN  /\ new.signal_id = s
                 /\ signals'[s].proposal_id = Len(proposals')
                 /\ mode = "draft_only" =>
                       new.status = "draft" /\ new.execution_mode = "manual"
                 /\ mode = "auto_draft_queue" =>
                       new.status = "queued" /\ new.execution_mode = "manual"
                 /\ mode = "execute_after_approval" =>
                       new.status = "queued" /\ new.execution_mode = "auto_after_approval"
                 /\ mode # "scan_only"]_vars

\* a draft created by a mission whose mode has since been switched
C14_Witness ==
    /\ mission_state.authority_mode = "execute_after_approval"
    /\ \E p \in DOMAIN proposals :
          proposals[p].status = "draft" /\ proposals[p].execution_mode = "manual"

\* C15: every stored signal has status queued, ignore or needs_clarification
\* (the code writes the last with a space).
C15_SignalStatusSet ==
    \A s \in DOMAIN signals :
       signals[s].status \in {"queued", "ignore", "needs_clarification", "needs clarification"}

\* the telemetry row _emit_execution_event records for execution e
ExecutionEvent(type, e) ==
    [type |-> type, proposal_id |-> executions[e].proposal_id, execution_id |-> e]

\* a worker step from position from to position to
WorkerMoves(e, from, to) == tasks[e].pc = from /\ tasks'[e].pc = to

C17_FinishedIffTerminal ==
    \A e \in DOMAIN executions :
       executions[e].finished_at # NULL <=> executions[e].status \in TerminalExecution

\* a running execution that a cancel request reached, its worker's handler
\* having run to its end
C17_Witness ==
    \E e \in DOMAIN tasks :
       /\ tasks[e].cancel_event
       /\ tasks[e].pc = "done"
       /\ executions[e].status = "cancelled"
       /\ executions[e].finished_at # NULL

\* C18: cancel answers success for an execution that is queued or running;
\* the step that cancels it leaves the execution cancelled, its proposal
\* cancelled and one more execution_cancelled row for it; and a cancelled
\* execution stays cancelled, the rows recorded for it staying recorded.
C18_CancelSettles ==
    /\ [](\A e \in DOMAIN executions :
            executions[e].status \notin TerminalExecution
            => CancelResponse(e) = Response(200, e))
    /\ [][\A e \in DOMAIN executions :
            LET ev == ExecutionEvent("execution_cancelled", e)
            IN  /\ (/\ executions[e].status \notin TerminalExecution
                    /\ executions'[e].status = "cancelled"
                    /\ tasks'[e].pc = tasks[e].pc)
                   => /\ tasks'[e].cancel_event
                      /\ proposals'[executions[e].proposal_id].status = "cancelled"
                      /\ Count(telemetry', ev) = Count(telemetry, ev) + 1
                /\ executions[e].status = "cancelled" => executions'[e].status = "cancelled"
                /\ Count(telemetry', ev) >= Count(telemetry, ev)]_vars

\* an execution cancelled while still queued: its task never ran
C18_Witness ==
    \E e \in DOMAIN tasks :
       /\ tasks[e].pc = "dead"
       /\ tasks[e].cancel_event
       /\ executions[e].status = "cancelled"
       /\ proposals[executions[e].proposal_id].status = "cancelled"
       /\ Count(telemetry, ExecutionEvent("execution_cancelled", e)) = 1

C20_UnknownIdIs404 ==
    LET p == Len(proposals) + 1
        e == Len(executions) + 1
    IN  /\ ApproveResponse(p).code = 404
        /\ RejectResponse(p).code = 404
        /\ \A lane \in EXECUTORS, allow_rerun \in BOOLEAN :
              ExecuteResponse(p, lane, allow_rerun).code = 404
        /\ CancelResponse(e).code = 404
        /\ DetailResponse(e).code = 404


\* the executions created for proposal p
ExecutionsOf(p) == {e \in DOMAIN executions : executions[e].proposal_id = p}

\* the artifact rows of proposal p of one kind
ArtifactsOf(p, kind) ==
    BagCardinality([a \in {x \in DOMAIN artifacts : x.proposal_id = p /\ x.kind = kind}
                      |-> artifacts[a]])

\* proposal p is approved for execution on approval, and has been approved
\* once and enqueued once
AutoOnce(p) ==
    /\ proposals[p].execution_mode = "auto_after_approval"
    /\ Count(telemetry, ApprovalEvent(p)) = 1
    /\ Cardinality(ExecutionsOf(p)) = 1

\* the path of the approval scenario
ScenarioEdge(a, b) ==
    \/ a = b
    \/ a = "queued" /\ b = "approved"
    \/ a = "approved" /\ b = "executing"
    \/ a = "executing" /\ b = "executed"

\* C21: approving a queued auto_after_approval proposal with the kill switch
\* off creates an execution in lane html for it and records execution_queued;
\* with no cancel, reject, stop or executor failure the proposal then goes
\* approved, executing, executed in that order, reaches executed, and has then
\* one json artifact and at least one artifact of the html lane.
C21_ApprovalAutoEnqueue ==
    /\ [][\A p \in DOMAIN proposals :
            (/\ ApprovalRecorded(p)
             /\ proposals[p].status = "queued"
             /\ proposals[p].execution_mode = "auto_after_approval"
             /\ ~ExecutionBlocked)
            => /\ ExecutionCreated(p)
               /\ executions'[Len(executions')].lane = "html"
               /\ executions'[Len(executions')].status = "queued"
               /\ proposals'[p].status = "approved"
               /\ Count(telemetry', [type |-> "execution_queued", proposal_id |-> p,
                                     execution_id |-> Len(executions')]) = 1]_vars
    /\ [][\A p \in DOMAIN proposals :
            AutoOnce(p)' => ScenarioEdge(proposals[p].status, proposals'[p].status)]_vars
    /\ [](\A p \in DOMAIN proposals :
            (AutoOnce(p) /\ proposals[p].status = "executed")
            => /\ ArtifactsOf(p, "json") = 1
               /\ ArtifactsOf(p, "html") >= 1)
    /\ \A p \in 1..MaxSignals :
          (p \in DOMAIN proposals /\ AutoOnce(p) /\ proposals[p].status = "approved")
          ~> (p \in DOMAIN proposals /\ proposals[p].status = "executed")

\* a proposal approved once on auto_after_approval has run to executed, with
\* its execution_queued event, its json artifact and the html lane's artifacts
C21_Witness ==
    \E p \in DOMAIN proposals :
        /\ AutoOnce(p)
        /\ proposals[p].status = "executed"
        /\ \E e \in ExecutionsOf(p) :
              /\ executions[e].lane = "html"
              /\ executions[e].status = "succeeded"
              /\ Count(telemetry, [type |-> "execution_queued", proposal_id |-> p,
                                   execution_id |-> e]) = 1
        /\ ArtifactsOf(p, "json") = 1
        /\ ArtifactsOf(p, "html") = 2

\* C22: execute with a valid lane on an approved proposal, the kill switch
\* off, answers 200 with an execution_id that is not null; the row of that id
\* is in the store, queued, when the request has been served; and with no
\* cancel, stop or executor failure every execution reaches succeeded.
C22_ExecuteCreatesExecution ==
    /\ [](\A p \in DOMAIN proposals, lane \in EXECUTORS, allow_rerun \in BOOLEAN :
            (proposals[p].status = "approved" /\ ~mission_state.execution_blocked)
            => /\ ExecuteResponse(p, lane, allow_rerun).code = 200
               /\ ExecuteResponse(p, lane, allow_rerun).execution_id # NULL
               /\ ExecuteResponse(p, lane, allow_rerun).execution_id \notin DOMAIN executions)
    /\ [][\A p \in DOMAIN proposals :
            (ExecutionCreated(p) /\ ~ApprovalRecorded(p))
            => LET e == Len(executions')
               IN  /\ \E allow_rerun \in BOOLEAN :
                         ExecuteResponse(p, executions'[e].lane, allow_rerun) = Response(200, e)
                   /\ executions'[e].status = "queued"
                   /\ e \in DOMAIN tasks'
                   /\ Count(telemetry', [type |-> "execution_queued", proposal_id |-> p,
                                         execution_id |-> e]) = 1]_vars
    /\ \A e \in 1..MaxExecutions :
          (e \in DOMAIN executions)
          ~> (e \in DOMAIN executions /\ executions[e].status = "succeeded")

\* an execution in a lane that only execute can name has succeeded
C22_Witness ==
    \E e \in DOMAIN executions :
       /\ executions[e].lane = "doc"
       /\ executions[e].status = "succeeded"
       /\ tasks[e].pc = "done"

\* what a subscriber has been handed so far, in order: the events it has
\* sent on, then the events still waiting in its queue
Delivered(q) == streams[q] \o queue_items[q]

\* C23: a publish puts the event exactly once at the tail of the queue of
\* every subscriber subscribed at that moment and in no other queue; every
\* subscriber is handed its events in publish order, each once; and a queue
\* that is unsubscribed is handed nothing more.
C23_BroadcasterDelivery ==
    /\ [][published' # published
          => \A q \in Queues :
                queue_items'[q] = IF q \in Subscribed
                                  THEN Append(queue_items[q], published')
                                  ELSE queue_items[q]]_vars
    /\ [](\A q \in Queues : \A i \in 1..(Len(Delivered(q)) - 1) :
             Delivered(q)[i + 1] = Delivered(q)[i] + 1)
    /\ [][\A q \in Queues :
             /\ q \notin Subscribed => Delivered(q)' = Delivered(q)
             /\ streams[q] # streams'[q]
                => /\ queue_items[q] # <<>>
                   /\ streams'[q] = Append(streams[q], Head(queue_items[q]))]_vars

\* two subscribers, one of them unsubscribed between two publish calls: the
\* first has been handed both events and has sent the first on, the second
\* was handed the first only
C23_Witness ==
    /\ Len(queue_items) = 2
    /\ Subscribed = {1}
    /\ streams[1] = <<1>>
    /\ queue_items[1] = <<2>>
    /\ Delivered(2) = <<1>>
    /\ published = 2

\* a step in which except Exception has trapped what the fetch or the
\* processing of connector number conn raised
Trapped(k) ==
    /\ loops[k].pc \in {"conn", "score"}
    /\ loops'[k].pc = "conn"
    /\ loops'[k].conn = loops[k].conn + 1

\* the loop task is through with a batch that was empty or that it has
\* processed without an exception
BatchOver(k) == loops[k].pc \in {"sig", "sleep"} /\ loops[k].batch = <<>>

\* C24: an exception of a connector's fetch or of the processing of its
\* signals leaves the mission running, with last_error naming the source, and
\* the loop at the next connector; a connector that returns no signal (304)
\* leaves last_error as it was, up to the next connector.
C24_ConnectorErrorsTrapped ==
    /\ [][\A k \in DOMAIN loops :
            Trapped(k)
            => /\ mission_state'.last_error = loops[k].connectors[loops[k].conn]
               /\ mission_state'.running = mission_state.running
               /\ stop_event' = stop_event]_vars
    /\ [][\A k \in DOMAIN loops :
            BatchOver(k) => mission_state'.last_error = mission_state.last_error]_vars

\* the max_items test has just stopped the loop in the middle of a batch:
\* stop_event is set, and neither mission/stop (which sets execution_blocked)
\* nor the ends_at test (which is followed by the while test) has set it
HaltedMidBatch(k) ==
    /\ loops[k].pc = "sleep"
    /\ stop_event
    /\ ~mission_state.execution_blocked
    /\ mission_state.items_processed = mission_state.max_items

C26_ExecutingOnlyUnblocked ==
    [][\A p \in DOMAIN proposals :
          (proposals[p].status = "approved" /\ proposals'[p].status = "executing")
          => ~mission_state.execution_blocked]_vars

\* C27: _insert_signal is idempotent: a call for a signal whose row is in the
\* table, whatever its scoring and proposal_id arguments, leaves the table
\* with one row of that id and every column of the row as it was.
C27_InsertIdempotent ==
    [][\A s \in DOMAIN signals :
          s \in DOMAIN signals' /\ signals'[s] = signals[s]]_vars

\* a step in which loop task k calls fetch_signals: the result is a batch, or
\* the call raises and the loop moves on
Fetches(k) ==
    /\ loops[k].pc = "conn"
    /\ \/ loops'[k].pc = "sig"
       \/ loops'[k].pc = "conn" /\ loops'[k].conn = loops[k].conn + 1

\* C28: between two consecutive fetches of the mission loop there is a
\* throttle sleep of max(5, 60 / rate) seconds, whether the earlier fetch
\* returned signals, returned nothing or raised.
C28_ThrottleBetweenFetches ==
    [][\A k \in DOMAIN loops :
          (Fetches(k) /\ loops[k].slept # -1)
          => /\ ~ThrottleRaises(mission_state.rate)
             /\ loops[k].slept = Throttle(mission_state.rate)]_vars

\* C29: with a rate below 1 per source per minute, 0 included, computing the
\* throttle does not fail and the loop's sleep between connectors is 60
\* seconds.
C29_SlowRateSleeps60 ==
    [][\A k \in DOMAIN loops :
          (/\ loops[k].pc = "sleep"
           /\ loops'[k].pc = "conn"
           /\ mission_state.rate < 2)
          => /\ ~ThrottleRaises(mission_state.rate)
             /\ loops'[k].slept = 60
             /\ mission_state'.last_error = mission_state.last_error]_vars

\* none of the sources names an entry of the catalogue
NoneResolves(sources) == \A i \in DOMAIN sources : sources[i] \notin SOURCE_CONFIG

\* C30: a mission loop started with sources of which none resolves to a
\* connector ends at once: last_error is "No valid connectors configured",
\* running is false, no mission row is written, and the task is over without
\* having fetched from any connector.
C30_NoValidConnectors ==
    /\ [][\A k \in DOMAIN loops :
            (loops[k].pc = "init" /\ loops'[k].pc # "init" /\ NoneResolves(loops[k].config.sources))
            => /\ mission_state'.last_error = "No valid connectors configured"
               /\ ~mission_state'.running
               /\ missions' = missions
               /\ loops'[k].connectors = <<>>
               /\ loops'[k].pc = "done"]_vars
    /\ [](\A k \in DOMAIN loops :
            (loops[k].pc # "init" /\ loops[k].connectors = <<>>)
            => loops[k].pc = "done" /\ loops[k].slept = -1)
    /\ [][\A k \in DOMAIN loops : loops[k].pc = "done" => loops'[k] = loops[k]]_vars

\* the loop of a mission started on an unknown source is over, nothing
\* recorded, nothing fetched
C30_Witness ==
    \E k \in DOMAIN loops :
       /\ loops[k].pc = "done"
       /\ loops[k].connectors = <<>>
       /\ loops[k].slept = -1
       /\ mission_state.last_error = "No valid connectors configured"
       /\ ~mission_state.running
       /\ missions = <<>>


\* a signal row the keyword heuristic alone scored
HeuristicRow(s) == s \in DOMAIN signals /\ signals[s].rationale = "keyword heuristic"

\* C31: a signal scored without LLM refinement is recommended for a draft
\* proposal exactly when its heuristic score is at least 2 and it has no risk
\* flag, for clarification exactly when it has a risk flag, and is ignored
\* otherwise.
C31_RecommendedAction ==
    \A s \in Signals :
       HeuristicRow(s)
       => LET text == signals[s].text
              action == signals[s].recommended_next_action
              score == Cardinality({keyword \in KEYWORDS : Within(keyword, text)})
              risk == RiskFlags(text) # {}
          IN  /\ action = "draft proposal" <=> (score >= 2 /\ ~risk)
              /\ action = "needs clarification" <=> risk
              /\ action = "ignore" <=> (score < 2 /\ ~risk)

\* a text of score 3 without risk flag has been scored by the heuristic
\* alone and is recommended for a draft proposal
C31_Witness ==
    \E s \in Signals :
       /\ HeuristicRow(s)
       /\ signals[s].text = {"need", "is there a tool"}
       /\ signals[s].recommended_next_action = "draft proposal"


\* the number of tokens_used rows in a telemetry table
TokensEvents(tel) ==
    LET rows == {row \in BagToSet(tel) : row.type = "tokens_used"}
    IN  BagCardinality([row \in rows |-> tel[row]])

\* C32: every scoring of a new signal records one tokens_used event: the
\* step that stores a signal leaves one more tokens_used row than it found,
\* whether the LLM refined the scoring or not.
C32_TokensUsedEveryScoring ==
    [][\A s \in Signals :
          SignalStored(s) => TokensEvents(telemetry') = TokensEvents(telemetry) + 1]_vars


\* a capacity a bounded queue could have: any number below the number of
\* events published in a run
QueueCapacity == MaxEvents - 1

\* C33: the queue of a subscriber is bounded: however slow the subscriber and
\* however many events are published, it never holds more undelivered events
\* than a fixed capacity.
C33_QueueBounded == \A q \in Queues : Len(queue_items[q]) <= QueueCapacity


\* the locks routine r is inside
Held(r) == {l \in Locks : lock_holder[l] = r}

\* routine r is about to take a lock
AtAcquire(r) ==
    r \in DOMAIN routines /\ routines[r] # <<>> /\ Head(routines[r]).do = "acquire"

\* C34: no coroutine asks for one of the three locks while it is inside
\* another or the same one, and every coroutine that asks for a lock gets it:
\* each of approve, execute, cancel, mission stop, publish and the workers
\* runs through all of its locked blocks.
C34_NoDeadlock ==
    /\ [](\A r \in 1..MaxRoutines : AtAcquire(r) => Held(r) = {})
    /\ \A r \in 1..MaxRoutines :
          AtAcquire(r) ~> (r \in DOMAIN routines /\ routines[r] = <<>>)

\* two coroutines are at the same lock, one inside it and one waiting
C34_Witness ==
    \E r, w \in DOMAIN routines :
       /\ r # w
       /\ AtAcquire(w)
       /\ lock_holder[Head(routines[w]).lock] = r


\* a mission loop task takes a step
LoopMoves == \E k \in DOMAIN loops : loops'[k] # loops[k]

\* C35: MissionState is written by the mission loop and by the mission/stop
\* handler only: a step that changes one of its fields is a step of a loop
\* task or the serving of mission/stop, never of mission/start, approve,
\* execute, cancel or the authority update.
C35_MissionStateWriters ==
    [][mission_state' # mission_state => LoopMoves \/ StopMission]_vars


StoppedMission ==
    IF mission_task # NULL /\ loops[mission_task].config.started_at # NULL
    THEN loops[mission_task].config.started_at
    ELSE mission_state.current_mission_id

ProposalsOf(s) == {p \in DOMAIN proposals : proposals[p].signal_id = s}

\* C39: at most one Proposal exists per signal id, and the signal of every
\* Proposal is stored with that proposal as its proposal_id.
C39_OneProposalPerSignal ==
    /\ \A s \in Signals : Cardinality(ProposalsOf(s)) <= 1
    /\ \A p \in DOMAIN proposals :
          /\ proposals[p].signal_id \in DOMAIN signals
          /\ signals[proposals[p].signal_id].proposal_id = p


\* the place of an event type in the lifecycle of an execution
Rank(type) ==
    CASE type = "execution_queued" -> 0
      [] type = "execution_started" -> 1
      [] type \in {"execution_log", "execution_progress", "execution_artifact"} -> 2
      [] type \in {"execution_finished", "execution_failed", "execution_cancelled"} -> 3

\* the events of execution e that subscriber q has sent to its client
EventsOf(q, e) == SelectSeq(streams[q], LAMBDA event : event.execution_id = e)

====
